---- MODULE Spec2Model ----
(***************************************************************************)
(* The SimpleFileIo interface of the ntfs-3g UEFI driver (uefi_file.c):    *)
(* file-handle objects, the two handle values of each object, the          *)
(* per-object and per-volume reference counts and the mount state they     *)
(* drive.  The engine bridge (Ntfs* functions) is modelled from the        *)
(* design document, the handlers from uefi_file.c.                         *)
(***************************************************************************)
EXTENDS Integers, Sequences, FiniteSets, TLC

\* ---------------------------------------------------------------- bounds
\* Cap on the volume's TotalRefCount (handles outstanding at once).
MaxRef == 2
\* Cap on a file's size in bytes.
MaxSize == 1
\* Cap on the length of a name whose resolution is examined.
MaxName == 3

\* ------------------------------------------------------------- constants
PATH_CHAR == "/"
DOS_PATH_CHAR == "\\"

EFI_FILE_MODE_READ == "READ"
EFI_FILE_MODE_WRITE == "WRITE"
EFI_FILE_MODE_CREATE == "CREATE"

EFI_SUCCESS == "EFI_SUCCESS"
EFI_WRITE_PROTECTED == "EFI_WRITE_PROTECTED"
EFI_NOT_FOUND == "EFI_NOT_FOUND"
EFI_INVALID_PARAMETER == "EFI_INVALID_PARAMETER"
EFI_ACCESS_DENIED == "EFI_ACCESS_DENIED"
EFI_OUT_OF_RESOURCES == "EFI_OUT_OF_RESOURCES"
EFI_WARN_DELETE_FAILURE == "EFI_WARN_DELETE_FAILURE"
EFI_DEVICE_ERROR == "EFI_DEVICE_ERROR"
EFI_UNSUPPORTED == "EFI_UNSUPPORTED"
EFI_BUFFER_TOO_SMALL == "EFI_BUFFER_TOO_SMALL"
EFI_BAD_BUFFER_SIZE == "EFI_BAD_BUFFER_SIZE"
EFI_END_OF_FILE == "EFI_END_OF_FILE"

\* EFI_ERROR(Status): warnings (EFI_WARN_*) are not errors.
EFI_ERROR(Status) == Status \notin {EFI_SUCCESS, EFI_WARN_DELETE_FAILURE}

\* ------------------------------------------------------------------ state
VARIABLES
    files,          \* the EFI_NTFS_FILE objects, by object
    TotalRefCount,  \* EFI_FS.TotalRefCount
    mounted,        \* whether the engine has the volume mounted
    readOnly,       \* NtfsIsVolumeReadOnly(NtfsVolume)
    disk,           \* the engine's view of the volume: path -> entry
    handles,        \* handle values the callers hold: value -> how many
    last,           \* the last call: operation, handle, status, result
    label,          \* EFI_FS.NtfsVolumeLabel
    token,          \* the EFI_FILE_IO_TOKEN of the last token-accepting call
    out,            \* what the last data call left in *Len and in the buffer
    resolved        \* the last path built from a parent's path and a name

vars == <<files, TotalRefCount, mounted, readOnly, disk, handles, last,
          label, token, out, resolved>>

RootPath == <<PATH_CHAR>>

\* The paths of the volume the callers work in.
VolumePaths == {RootPath, <<PATH_CHAR, "a">>, <<PATH_CHAR, "d">>}

\* Objects are named by the path the engine tracks them under; New names the
\* object a call has allocated and the engine does not track yet.
New == <<"new">>
NULL == <<>>
Obj == VolumePaths \cup {New}

RW == "RW"
RO == "RO"
\* A handle value is the address of one of the two EFI_FILE members of an
\* object: <<object, which member>>.
HandleValues == VolumePaths \X {RW, RO}
NoHandle == <<NULL, "none">>

\* An object that does not exist (AllocateZeroPool zeroes a new object).
ZeroFile ==
    [alloc |-> FALSE, IsDir |-> FALSE, IsRoot |-> FALSE, DirPos |-> 0,
     Offset |-> 0, Path |-> NULL, RefCount |-> 0, NtfsInode |-> FALSE]

RO_ACCESS(Handle) == Handle[2] = RO
BASE_FILE(Handle) == Handle[1]

\* --------------------------------------------------------- path handling
IS_PATH_DELIMITER(c) == c = PATH_CHAR \/ c = DOS_PATH_CHAR

\* The segments of a path between PATH_CHARs, empty ones included.
RECURSIVE Segments(_, _)
Segments(p, cur) ==
    IF p = <<>> THEN <<cur>>
    ELSE IF Head(p) = PATH_CHAR THEN <<cur>> \o Segments(Tail(p), <<>>)
    ELSE Segments(Tail(p), Append(cur, Head(p)))

\* Processes the segments left to right: "" and "." are dropped, ".."
\* removes the segment before it and never climbs above the root.
RECURSIVE CleanSegments(_, _)
CleanSegments(segs, acc) ==
    IF segs = <<>> THEN acc
    ELSE LET s == Head(segs)
         IN  IF s = <<>> \/ s = <<".">> THEN CleanSegments(Tail(segs), acc)
             ELSE IF s = <<".", ".">>
             THEN CleanSegments(Tail(segs),
                                IF acc = <<>> THEN acc
                                ELSE SubSeq(acc, 1, Len(acc) - 1))
             ELSE CleanSegments(Tail(segs), Append(acc, s))

RECURSIVE JoinSegments(_)
JoinSegments(segs) ==
    IF segs = <<>> THEN <<>>
    ELSE <<PATH_CHAR>> \o Head(segs) \o JoinSegments(Tail(segs))

\* CleanPath: removes double delimiters and processes "." and "..".
CleanPath(p) ==
    LET segs == CleanSegments(Segments(p, <<>>), <<>>)
    IN  IF segs = <<>> THEN RootPath ELSE JoinSegments(segs)

\* A variant without the conversion loop.
ConvertNothing(p, Len0) == p

\* The delimiter conversion loop: DOS_PATH_CHAR becomes PATH_CHAR at the
\* (0-based) positions Len .. end.
ConvertDelimiters(p, Len0) ==
    [i \in 1..Len(p) |->
        IF i > Len0 /\ p[i] = DOS_PATH_CHAR THEN PATH_CHAR ELSE p[i]]

\* The path FileOpen builds from the parent's path and the name.
OpenPath(ParentPath, Name) ==
    LET abs == Name # <<>> /\ IS_PATH_DELIMITER(Name[1])
        pre == IF abs THEN <<>> ELSE Append(ParentPath, PATH_CHAR)
    IN  CleanPath(ConvertDelimiters(pre \o Name, Len(pre)))

\* The path building of FileOpen (lines 117-137) applied once to a parent's
\* path and a name; it depends on nothing else.
NoResolved == [parent |-> <<>>, name |-> <<>>, path |-> <<>>]

ResolvePath(ParentPath, Name) ==
    /\ resolved = NoResolved
    /\ resolved' = [parent |-> ParentPath, name |-> Name,
                    path |-> OpenPath(ParentPath, Name)]
    /\ UNCHANGED <<files, TotalRefCount, mounted, readOnly, disk, handles,
                   last, label, token, out>>

\* The names the callers pass to FileOpen.
Names == {<<>>, <<".">>, <<".", ".">>, <<"a">>, <<"d">>, <<PATH_CHAR, "d">>}

\* OpenPath over the callers' inputs, computed once.
OpenPaths == [pp \in VolumePaths, n \in Names |-> OpenPath(pp, n)]

\* The directory a path lies in.
ParentOf(p) ==
    LET segs == Segments(Tail(p), <<>>)
    IN  IF Len(segs) <= 1 THEN RootPath
        ELSE JoinSegments(SubSeq(segs, 1, Len(segs) - 1))

\* ------------------------------------------------------------- the engine
\* Each engine call returns the status, the objects, the object pointer it
\* may have substituted, and the volume's contents.

NtfsIsVolumeReadOnly == readOnly

\* NtfsAllocateFile: a zeroed object bound to the file system, or
\* OUT_OF_RESOURCES.
NtfsAllocateFile(f, fail) ==
    IF fail
    THEN [status |-> EFI_OUT_OF_RESOURCES, f |-> f, o |-> NULL]
    ELSE [status |-> EFI_SUCCESS,
          f |-> [f EXCEPT ![New] = [ZeroFile EXCEPT !.alloc = TRUE]],
          o |-> New]

\* NtfsFreeFile: only has effect if the object's reference count is zero.
NtfsFreeFile(f, o) ==
    IF o = NULL THEN f
    ELSE IF f[o].RefCount <= 0 THEN [f EXCEPT ![o] = ZeroFile]
    ELSE f

\* NtfsCloseFile: releases the engine node of the object.
NtfsCloseFile(f, o) ==
    IF o = NULL THEN f
    ELSE [f EXCEPT ![o].NtfsInode = FALSE]

\* The engine already tracks an open object for the path.
NtfsLookup(f, p) == p \in VolumePaths /\ f[p].alloc /\ f[p].NtfsInode

\* The engine attaches a node to the object o and tracks it under its path.
NtfsTrack(f, o, isDir) ==
    [f EXCEPT ![f[o].Path] = [f[o] EXCEPT !.NtfsInode = TRUE,
                                          !.IsDir = isDir,
                                          !.IsRoot = (f[o].Path = RootPath)],
              ![o] = ZeroFile]

\* How an engine call can fail: not at all, before it has looked for an
\* already-open object, or after it has substituted one.
NoFail == "no"
FailEarly == "early"
FailLate == "late"

\* NtfsOpenFile: may substitute a pre-existing object for the same path (the
\* new one is then released); otherwise looks the path up on the volume.
NtfsOpenFile(f, o, d, fail) ==
    IF NtfsLookup(f, f[o].Path)
    THEN [status |-> IF fail = FailLate THEN EFI_DEVICE_ERROR ELSE EFI_SUCCESS,
          f |-> NtfsFreeFile(f, o), o |-> f[o].Path, d |-> d]
    ELSE IF fail # NoFail
    THEN [status |-> EFI_DEVICE_ERROR, f |-> f, o |-> o, d |-> d]
    ELSE IF f[o].Path \notin DOMAIN d
    THEN [status |-> EFI_NOT_FOUND, f |-> f, o |-> o, d |-> d]
    ELSE [status |-> EFI_SUCCESS,
          f |-> NtfsTrack(f, o, d[f[o].Path].isDir),
          o |-> f[o].Path, d |-> d]

\* NtfsCreateFile: may hand back the object already open for the path, opens
\* the entry if it exists, creates it in its directory otherwise.
NtfsCreateFile(f, o, d, fail) ==
    IF NtfsLookup(f, f[o].Path)
    THEN [status |-> IF fail = FailLate THEN EFI_DEVICE_ERROR ELSE EFI_SUCCESS,
          f |-> NtfsFreeFile(f, o), o |-> f[o].Path, d |-> d]
    ELSE IF fail # NoFail
    THEN [status |-> EFI_DEVICE_ERROR, f |-> f, o |-> o, d |-> d]
    ELSE IF f[o].Path \in DOMAIN d
    THEN [status |-> EFI_SUCCESS,
          f |-> NtfsTrack(f, o, d[f[o].Path].isDir),
          o |-> f[o].Path, d |-> d]
    ELSE IF ParentOf(f[o].Path) \notin DOMAIN d \/ ~d[ParentOf(f[o].Path)].isDir
    THEN [status |-> EFI_NOT_FOUND, f |-> f, o |-> o, d |-> d]
    ELSE [status |-> EFI_SUCCESS,
          f |-> NtfsTrack(f, o, f[o].IsDir),
          o |-> f[o].Path,
          d |-> d @@ (f[o].Path :> [isDir |-> f[o].IsDir, size |-> 0])]

\* NtfsDeleteFile: closes the node and removes the entry from the volume.
NtfsDeleteFile(f, o, d) ==
    [status |-> EFI_SUCCESS,
     f |-> [f EXCEPT ![o].NtfsInode = FALSE],
     d |-> [p \in DOMAIN d \ {f[o].Path} |-> d[p]]]

\* NtfsWriteFile: writes Len bytes at the object's offset and advances it.
NtfsWriteFile(f, o, d, Len0) ==
    LET end == f[o].Offset + Len0
        p == f[o].Path
    IN  [status |-> EFI_SUCCESS,
         f |-> [f EXCEPT ![o].Offset = end],
         d |-> [d EXCEPT ![p].size = IF end > @ THEN end ELSE @]]

\* NtfsMountVolume: mounting a mounted volume succeeds and changes nothing.
NtfsMountVolume(m, fail) ==
    IF m THEN [status |-> EFI_SUCCESS, mounted |-> TRUE]
    ELSE IF fail THEN [status |-> EFI_DEVICE_ERROR, mounted |-> FALSE]
    ELSE [status |-> EFI_SUCCESS, mounted |-> TRUE]

\* NtfsUnmountVolume: the volume is unmounted.
NtfsUnmountVolume(m) == FALSE

\* ------------------------------------------------------------ bookkeeping
\* The callers receive a handle value / give one up.
Give(h, v) == IF v = NoHandle THEN h ELSE [h EXCEPT ![v] = @ + 1]
Take(h, v) == [h EXCEPT ![v] = @ - 1]

Outstanding == {v \in HandleValues : handles[v] > 0}

\* A call that has no *Len, no buffer and no *Position.
NoOut == [len |-> 0, written |-> 0, entry |-> NULL, pos |-> 0]

\* A token as the caller passes it: event not signalled, status not set.
FreshToken == [signalled |-> FALSE, status |-> "unset"]

\* What a call leaves behind: the status, the handle value returned, the
\* engine calls made, whether the caller's handle value was released.
Done(op, This, r, released) ==
    /\ files' = r.files
    /\ TotalRefCount' = r.TotalRefCount
    /\ mounted' = r.mounted
    /\ disk' = r.disk
    /\ handles' = Give(IF released THEN Take(handles, This) ELSE handles, r.ret)
    /\ last' = [op |-> op, this |-> This, status |-> r.status, ret |-> r.ret,
                calls |-> r.calls]
    /\ out' = NoOut
    /\ UNCHANGED <<readOnly, label, token, resolved>>

\* A call that returns a status and changes nothing.
Return(Status) ==
    [status |-> Status, files |-> files, TotalRefCount |-> TotalRefCount,
     mounted |-> mounted, disk |-> disk, ret |-> NoHandle, calls |-> <<>>]

\* --------------------------------------------------------------- FileOpen
OpenFaults == {"none", "path", "alloc", "engine"}

\* The engine fault of an Open: the create or open call fails, after the
\* substitution if the path is already open.
EngineFail(fault) == IF fault = "engine" THEN FailLate ELSE NoFail

\* A variant that also accepts Write alone.
ValidModesAndWrite ==
    {{EFI_FILE_MODE_READ},
     {EFI_FILE_MODE_WRITE},
     {EFI_FILE_MODE_READ, EFI_FILE_MODE_WRITE},
     {EFI_FILE_MODE_CREATE, EFI_FILE_MODE_READ, EFI_FILE_MODE_WRITE}}

\* "The only valid combinations that a file may be opened with are: Read,
\* Read/Write, or Create/Read/Write."
ValidModes ==
    {{EFI_FILE_MODE_READ},
     {EFI_FILE_MODE_READ, EFI_FILE_MODE_WRITE},
     {EFI_FILE_MODE_CREATE, EFI_FILE_MODE_READ, EFI_FILE_MODE_WRITE}}

\* A variant that hands out the read-write value for every mode.
ModeHandleAlwaysRW(o, Mode) == <<o, RW>>

\* The handle value returned for a mode: &EfiFileRW or &EfiFileRO.
ModeHandle(o, Mode) == <<o, IF EFI_FILE_MODE_WRITE \in Mode THEN RW ELSE RO>>

\* The name reopens the handle's own object.
IsReopen(Name) == Name = <<>> \/ Name = <<".">>

\* A variant that lets "." through.
CreateReservedNoDot(Name, Mode) ==
    /\ EFI_FILE_MODE_CREATE \in Mode
    /\ (Name = <<>> \/ Name = <<".", ".">>)

\* "Prevent the creation of files named '', '.' or '..'" (lines 93-96).
CreateReserved(Name, Mode) ==
    /\ EFI_FILE_MODE_CREATE \in Mode
    /\ (Name = <<>> \/ Name = <<".">> \/ Name = <<".", ".">>)

\* The parent of a reopen must be a directory (lines 74-77).
OpenNotDir(File) == ~files[File].IsDir

\* A variant of the reopen that forgets the volume's count.
OpenReopenNoTotal(File, Mode) ==
    [status |-> EFI_SUCCESS,
     files |-> [files EXCEPT ![File].RefCount = @ + 1],
     TotalRefCount |-> TotalRefCount,
     mounted |-> mounted, disk |-> disk,
     ret |-> <<File, IF EFI_FILE_MODE_WRITE \in Mode THEN RW ELSE RO>>,
     calls |-> <<>>]

\* A variant of the reopen that forgets the object's count.
OpenReopenNoRef(File, Mode) ==
    [status |-> EFI_SUCCESS, files |-> files,
     TotalRefCount |-> TotalRefCount + 1,
     mounted |-> mounted, disk |-> disk,
     ret |-> <<File, IF EFI_FILE_MODE_WRITE \in Mode THEN RW ELSE RO>>,
     calls |-> <<>>]

\* Reopening the current object (lines 99-108).
OpenReopen(File, Mode) ==
    [status |-> EFI_SUCCESS,
     files |-> [files EXCEPT ![File].RefCount = @ + 1],
     TotalRefCount |-> TotalRefCount + 1,
     mounted |-> mounted, disk |-> disk,
     ret |-> ModeHandle(File, Mode), calls |-> <<>>]

\* The engine releases the new object when it substitutes the open one.
Substituted(f, o) ==
    IF NtfsLookup(f, f[o].Path) THEN <<"NtfsFreeFile">> ELSE <<>>

\* A variant of the exit that frees the object whatever its RefCount.
OpenOutFreesAlways(Status, f, NewFile, d, Mode, calls) ==
    IF EFI_ERROR(Status)
    THEN [status |-> Status,
          files |-> IF NewFile = NULL THEN f
                    ELSE [f EXCEPT ![NewFile] = ZeroFile],
          TotalRefCount |-> TotalRefCount, mounted |-> mounted, disk |-> d,
          ret |-> NoHandle, calls |-> calls \o <<"NtfsFreeFile">>]
    ELSE [status |-> EFI_SUCCESS,
          files |-> [f EXCEPT ![NewFile].RefCount = @ + 1],
          TotalRefCount |-> TotalRefCount + 1, mounted |-> mounted,
          disk |-> d,
          ret |-> <<NewFile, IF EFI_FILE_MODE_WRITE \in Mode THEN RW ELSE RO>>,
          calls |-> calls]

\* The exit of FileOpen (label out), and the reference taken on success.
OpenOut(Status, f, NewFile, d, Mode, calls) ==
    IF EFI_ERROR(Status)
    THEN [status |-> Status, files |-> NtfsFreeFile(f, NewFile),
          TotalRefCount |-> TotalRefCount, mounted |-> mounted, disk |-> d,
          ret |-> NoHandle, calls |-> calls \o <<"NtfsFreeFile">>]
    ELSE [status |-> EFI_SUCCESS,
          files |-> [f EXCEPT ![NewFile].RefCount = @ + 1],
          TotalRefCount |-> TotalRefCount + 1, mounted |-> mounted,
          disk |-> d, ret |-> ModeHandle(NewFile, Mode), calls |-> calls]

\* FileOpen from the path allocation on (lines 110-196).
OpenNew(File, Name, Mode, IsDirAttr, fault) ==
    IF fault = "path"
    THEN OpenOut(EFI_OUT_OF_RESOURCES, files, NULL, disk, Mode, <<>>)
    ELSE
    LET Path == OpenPaths[files[File].Path, Name]
        al == NtfsAllocateFile(files, fault = "alloc")
        c1 == <<"NtfsAllocateFile">>
    IN
    IF EFI_ERROR(al.status)
    THEN OpenOut(al.status, al.f, NULL, disk, Mode, c1)
    ELSE IF Path = RootPath /\ EFI_FILE_MODE_CREATE \in Mode
    THEN OpenOut(EFI_ACCESS_DENIED, al.f, al.o, disk, Mode, c1)
    ELSE
    LET f1 == [al.f EXCEPT ![al.o].Path = Path]
    IN
    IF EFI_FILE_MODE_CREATE \in Mode
    THEN LET f2 == [f1 EXCEPT ![al.o].IsDir = IsDirAttr]
             cr == NtfsCreateFile(f2, al.o, disk, EngineFail(fault))
         IN  OpenOut(cr.status, cr.f, cr.o, cr.d, Mode,
                     c1 \o <<"NtfsCreateFile">> \o Substituted(f2, al.o))
    ELSE LET op == NtfsOpenFile(f1, al.o, disk, EngineFail(fault))
         IN  OpenOut(op.status, op.f, op.o, op.d, Mode,
                     c1 \o <<"NtfsOpenFile">> \o Substituted(f1, al.o))

FileOpenRes(This, Name, Mode, IsDirAttr, fault) ==
    LET File == BASE_FILE(This)
    IN
    IF NtfsIsVolumeReadOnly /\ Mode # {EFI_FILE_MODE_READ}
    THEN Return(EFI_WRITE_PROTECTED)
    ELSE IF Name = <<".", ".">> /\ files[File].IsRoot
    THEN Return(EFI_NOT_FOUND)
    ELSE IF OpenNotDir(File)
    THEN Return(EFI_NOT_FOUND)
    ELSE IF Mode \notin ValidModes
    THEN Return(EFI_INVALID_PARAMETER)
    ELSE IF CreateReserved(Name, Mode)
    THEN Return(EFI_ACCESS_DENIED)
    ELSE IF IsReopen(Name)
    THEN OpenReopen(File, Mode)
    ELSE OpenNew(File, Name, Mode, IsDirAttr, fault)

FileOpen(This, Name, Mode, IsDirAttr, fault) ==
    /\ handles[This] > 0
    /\ TotalRefCount < MaxRef
    /\ (IsReopen(Name)
        \/ OpenPaths[files[BASE_FILE(This)].Path, Name] \in VolumePaths)
    /\ \E r \in {FileOpenRes(This, Name, Mode, IsDirAttr, fault)} :
           Done("Open", This, r, FALSE)

\* ------------------------------------------------------- FileOpenVolume
OpenVolumeFaults == {"none", "mount", "alloc", "path", "open"}

\* A variant of the exit that sets the root's count to 1 instead of adding 1.
OpenVolumeOutSetsOne(Status, f, RootFile, m, calls) ==
    IF EFI_ERROR(Status)
    THEN [status |-> Status,
          files |-> NtfsFreeFile(NtfsCloseFile(f, RootFile), RootFile),
          TotalRefCount |-> TotalRefCount,
          mounted |-> NtfsUnmountVolume(m), disk |-> disk,
          ret |-> NoHandle,
          calls |-> calls \o <<"NtfsCloseFile", "NtfsFreeFile", "NtfsUnmountVolume">>]
    ELSE [status |-> Status,
          files |-> [f EXCEPT ![RootFile].RefCount = 1],
          TotalRefCount |-> TotalRefCount + 1,
          mounted |-> m, disk |-> disk,
          ret |-> <<RootFile, RW>>, calls |-> calls]

\* A variant of the exit that leaves the volume mounted on failure.
OpenVolumeOutNoUnmount(Status, f, RootFile, m, calls) ==
    IF EFI_ERROR(Status)
    THEN [status |-> Status,
          files |-> NtfsFreeFile(NtfsCloseFile(f, RootFile), RootFile),
          TotalRefCount |-> TotalRefCount,
          mounted |-> m, disk |-> disk,
          ret |-> NoHandle,
          calls |-> calls \o <<"NtfsCloseFile", "NtfsFreeFile">>]
    ELSE [status |-> Status,
          files |-> [f EXCEPT ![RootFile].RefCount = @ + 1],
          TotalRefCount |-> TotalRefCount + 1,
          mounted |-> m, disk |-> disk,
          ret |-> <<RootFile, RW>>, calls |-> calls]

\* The exit of FileOpenVolume (label out), and the reference taken on
\* success; the handle returned is the object's address.
OpenVolumeOut(Status, f, RootFile, m, calls) ==
    IF EFI_ERROR(Status)
    THEN [status |-> Status,
          files |-> NtfsFreeFile(NtfsCloseFile(f, RootFile), RootFile),
          TotalRefCount |-> TotalRefCount,
          mounted |-> NtfsUnmountVolume(m), disk |-> disk,
          ret |-> NoHandle,
          calls |-> calls \o <<"NtfsCloseFile", "NtfsFreeFile", "NtfsUnmountVolume">>]
    ELSE [status |-> Status,
          files |-> [f EXCEPT ![RootFile].RefCount = @ + 1],
          TotalRefCount |-> TotalRefCount + 1,
          mounted |-> m, disk |-> disk,
          ret |-> <<RootFile, RW>>, calls |-> calls]

FileOpenVolumeRes(fault) ==
    LET mnt == NtfsMountVolume(mounted, fault = "mount")
    IN
    IF EFI_ERROR(mnt.status)
    THEN OpenVolumeOut(mnt.status, files, NULL, mnt.mounted, <<"NtfsMountVolume">>)
    ELSE
    LET al == NtfsAllocateFile(files, fault = "alloc")
        c1 == <<"NtfsMountVolume", "NtfsAllocateFile">>
    IN
    IF EFI_ERROR(al.status)
    THEN OpenVolumeOut(al.status, al.f, NULL, mnt.mounted, c1)
    ELSE IF fault = "path"
    THEN OpenVolumeOut(EFI_OUT_OF_RESOURCES, al.f, al.o, mnt.mounted, c1)
    ELSE
    LET f1 == [al.f EXCEPT ![al.o].Path = RootPath]
        op == NtfsOpenFile(f1, al.o, disk,
                           IF fault = "open" THEN FailEarly ELSE NoFail)
    IN  OpenVolumeOut(op.status, op.f, op.o, mnt.mounted,
                      c1 \o <<"NtfsOpenFile">>)

FileOpenVolume(fault) ==
    /\ TotalRefCount < MaxRef
    /\ \E r \in {FileOpenVolumeRes(fault)} :
           Done("OpenVolume", NoHandle, r, FALSE)

\* ------------------------------------------------------------- FileClose
\* File->RefCount <= 0: the object is closed and destroyed.
CloseDestroys(RefCount) == RefCount <= 0

\* A variant that unmounts only below zero.
CloseUnmountsBelowZero(Total) == Total < 0

\* FileSystem->TotalRefCount <= 0: the volume is unmounted.
CloseUnmounts(Total) == Total <= 0

FileCloseRes(This) ==
    LET File == BASE_FILE(This)
        f1 == [files EXCEPT ![File].RefCount = @ - 1]
        destroy == CloseDestroys(f1[File].RefCount)
        f2 == IF destroy THEN NtfsFreeFile(NtfsCloseFile(f1, File), File) ELSE f1
        c1 == IF destroy THEN <<"NtfsCloseFile", "NtfsFreeFile">> ELSE <<>>
        trc == TotalRefCount - 1
        unmount == CloseUnmounts(trc)
    IN  [status |-> EFI_SUCCESS, files |-> f2, TotalRefCount |-> trc,
         mounted |-> IF unmount THEN NtfsUnmountVolume(mounted) ELSE mounted,
         disk |-> disk, ret |-> NoHandle,
         calls |-> IF unmount THEN c1 \o <<"NtfsUnmountVolume">> ELSE c1]

FileClose(This) ==
    /\ handles[This] > 0
    /\ \E r \in {FileCloseRes(This)} : Done("Close", This, r, TRUE)

\* ------------------------------------------------------------ FileDelete
\* The handles FileDelete refuses outright (lines 262-263).
DeleteDenied(File) == files[File].IsRoot \/ ~files[File].NtfsInode

\* A variant that keeps only the root.
DeleteKeepsRootOnly(IsRoot, RefCount) == IsRoot

\* "Don't delete root or files that have more than one ref" (line 272).
DeleteKeeps(IsRoot, RefCount) == IsRoot \/ RefCount > 0

FileDeleteRes(This) ==
    LET File == BASE_FILE(This)
    IN
    IF DeleteDenied(File)
    THEN Return(EFI_ACCESS_DENIED)
    ELSE
    LET f1 == [files EXCEPT ![File].RefCount = @ - 1]
        trc == TotalRefCount - 1
    IN
    IF DeleteKeeps(f1[File].IsRoot, f1[File].RefCount)
    THEN [status |-> EFI_WARN_DELETE_FAILURE, files |-> f1,
          TotalRefCount |-> trc, mounted |-> mounted, disk |-> disk,
          ret |-> NoHandle, calls |-> <<>>]
    ELSE IF NtfsIsVolumeReadOnly
    THEN [status |-> EFI_WARN_DELETE_FAILURE, files |-> f1,
          TotalRefCount |-> trc, mounted |-> mounted, disk |-> disk,
          ret |-> NoHandle, calls |-> <<>>]
    ELSE
    LET del == NtfsDeleteFile(f1, File, disk)
        unmount == trc <= 0
        c1 == <<"NtfsDeleteFile", "NtfsFreeFile">>
    IN  [status |-> del.status, files |-> NtfsFreeFile(del.f, File),
         TotalRefCount |-> trc,
         mounted |-> IF unmount THEN NtfsUnmountVolume(mounted) ELSE mounted,
         disk |-> del.d, ret |-> NoHandle,
         calls |-> IF unmount THEN c1 \o <<"NtfsUnmountVolume">> ELSE c1]

\* The caller's reference is given up unless the call was refused outright.
FileDelete(This) ==
    /\ handles[This] > 0
    /\ \E r \in {FileDeleteRes(This)} :
           Done("Delete", This, r, r.status # EFI_ACCESS_DENIED)

\* ------------------------------------------------------------- FileWrite
FileWriteRes(This, Len0) ==
    LET File == BASE_FILE(This)
    IN
    IF ~files[File].NtfsInode THEN Return(EFI_DEVICE_ERROR)
    ELSE IF RO_ACCESS(This) THEN Return(EFI_ACCESS_DENIED)
    ELSE IF NtfsIsVolumeReadOnly THEN Return(EFI_WRITE_PROTECTED)
    ELSE IF files[File].IsDir THEN Return(EFI_UNSUPPORTED)
    ELSE LET wr == NtfsWriteFile(files, File, disk, Len0)
         IN  [status |-> wr.status, files |-> wr.f,
              TotalRefCount |-> TotalRefCount, mounted |-> mounted,
              disk |-> wr.d, ret |-> NoHandle, calls |-> <<"NtfsWriteFile">>]

FileWrite(This, Len0) ==
    /\ handles[This] > 0
    /\ files[BASE_FILE(This)].Offset + Len0 <= MaxSize
    /\ \E r \in {FileWriteRes(This, Len0)} : Done("Write", This, r, FALSE)

\* ------------------------------------------------------ data operations
\* What a data call leaves behind: it takes and gives no handle value and
\* leaves the counts and the mount state alone.
DoneIO(op, This, r) ==
    /\ files' = r.files
    /\ disk' = r.disk
    /\ label' = r.label
    /\ out' = r.out
    /\ last' = [op |-> op, this |-> This, status |-> r.status,
                ret |-> NoHandle, calls |-> r.calls]
    /\ UNCHANGED <<TotalRefCount, mounted, readOnly, handles, token, resolved>>

\* A data call that returns a status, with *Len as it was passed.
ReturnIO(Status, Len0) ==
    [status |-> Status, files |-> files, disk |-> disk, label |-> label,
     out |-> [NoOut EXCEPT !.len = Len0], calls |-> <<>>]

\* The result of a data call that changes nothing but the caller's buffer.
InfoOut(Status, len, written, calls) ==
    [status |-> Status, files |-> files, disk |-> disk, label |-> label,
     out |-> [NoOut EXCEPT !.len = len, !.written = written], calls |-> calls]

\* sizeof(CHAR16), and the offsets of the names in the info structures.
SizeOfChar16 == 2
SIZE_OF_EFI_FILE_INFO == 80
SIZE_OF_EFI_FILE_SYSTEM_INFO == 36

\* SafeStrSize: the size in bytes of a string with its terminator.
SafeStrSize(str) == (Len(str) + 1) * SizeOfChar16

\* BaseName: the part of the path after its last PATH_CHAR.
RECURSIVE BaseName(_)
BaseName(Path) ==
    IF Path = <<>> \/ Path[Len(Path)] = PATH_CHAR THEN <<>>
    ELSE Append(BaseName(SubSeq(Path, 1, Len(Path) - 1)), Path[Len(Path)])

\* ------------------------------------------------------------ FileGetInfo
InfoTypes == {"FileInfo", "FileSystemInfo", "VolumeLabel", "Other"}

\* The size test of the volume-label query (line 605).
LabelTooSmall(Size, Len0) == Size < Len0

FileGetInfoRes(This, Type, Len0) ==
    LET File == BASE_FILE(This)
    IN
    IF ~files[File].NtfsInode THEN ReturnIO(EFI_DEVICE_ERROR, Len0)
    ELSE IF Type = "FileInfo"
    THEN LET Size == SafeStrSize(BaseName(files[File].Path))
         IN  IF Len0 < SIZE_OF_EFI_FILE_INFO + Size
             THEN InfoOut(EFI_BUFFER_TOO_SMALL, SIZE_OF_EFI_FILE_INFO + Size,
                          0, <<>>)
             ELSE InfoOut(EFI_SUCCESS, Size + SIZE_OF_EFI_FILE_INFO,
                          Size + SIZE_OF_EFI_FILE_INFO, <<"NtfsGetFileInfo">>)
    ELSE IF Type = "FileSystemInfo"
    THEN LET Size == SafeStrSize(label)
         IN  IF Len0 < SIZE_OF_EFI_FILE_SYSTEM_INFO + Size
             THEN InfoOut(EFI_BUFFER_TOO_SMALL,
                          SIZE_OF_EFI_FILE_SYSTEM_INFO + Size, 0, <<>>)
             ELSE InfoOut(EFI_SUCCESS, Size + SIZE_OF_EFI_FILE_SYSTEM_INFO,
                          Size + SIZE_OF_EFI_FILE_SYSTEM_INFO,
                          <<"NtfsGetVolumeFreeSpace">>)
    ELSE IF Type = "VolumeLabel"
    THEN IF ~files[File].IsRoot THEN ReturnIO(EFI_ACCESS_DENIED, Len0)
         ELSE IF Len0 < SizeOfChar16 THEN ReturnIO(EFI_BUFFER_TOO_SMALL, Len0)
         ELSE LET Size == SafeStrSize(label)
              IN  IF LabelTooSmall(Size, Len0)
                  THEN InfoOut(EFI_BUFFER_TOO_SMALL, Size, 0, <<>>)
                  ELSE InfoOut(EFI_SUCCESS, Size, Size, <<>>)
    ELSE ReturnIO(EFI_UNSUPPORTED, Len0)

FileGetInfo(This, Type, Len0) ==
    /\ handles[This] > 0
    /\ \E r \in {FileGetInfoRes(This, Type, Len0)} : DoneIO("GetInfo", This, r)

\* ------------------------------------------------------------ FileSetInfo
\* NtfsSetFileInfo: updates the metadata unless read-only access was
\* requested.
NtfsSetFileInfo(ReadOnly) ==
    IF ReadOnly THEN EFI_ACCESS_DENIED ELSE EFI_SUCCESS

\* NtfsRenameVolume: the volume takes the new label.
NtfsRenameVolume(NewLabel) == [status |-> EFI_SUCCESS, label |-> NewLabel]

\* The buffer cannot hold the structure with its name (lines 654-655,
\* 665-666, 674).
BadBufferSize(Len0, Base, NameSize) ==
    Len0 < Base + SizeOfChar16 \/ NameSize > Len0 - Base

FileSetInfoRename(File, Len0, Base, NewLabel) ==
    IF ~files[File].IsRoot THEN ReturnIO(EFI_ACCESS_DENIED, Len0)
    ELSE IF BadBufferSize(Len0, Base, SafeStrSize(NewLabel))
    THEN ReturnIO(EFI_BAD_BUFFER_SIZE, Len0)
    ELSE LET rn == NtfsRenameVolume(NewLabel)
         IN  [status |-> rn.status, files |-> files, disk |-> disk,
              label |-> rn.label, out |-> [NoOut EXCEPT !.len = Len0],
              calls |-> <<"NtfsRenameVolume">>]

\* Name is the name in the buffer (file name or volume label), ValidAttr
\* whether Info->Attribute has only valid bits.
FileSetInfoRes(This, Type, Len0, Name, ValidAttr) ==
    LET File == BASE_FILE(This)
    IN
    IF NtfsIsVolumeReadOnly THEN ReturnIO(EFI_WRITE_PROTECTED, Len0)
    ELSE IF ~files[File].NtfsInode THEN ReturnIO(EFI_DEVICE_ERROR, Len0)
    ELSE IF Type = "FileInfo"
    THEN IF BadBufferSize(Len0, SIZE_OF_EFI_FILE_INFO, SafeStrSize(Name))
         THEN ReturnIO(EFI_BAD_BUFFER_SIZE, Len0)
         ELSE IF ~ValidAttr THEN ReturnIO(EFI_INVALID_PARAMETER, Len0)
         ELSE [status |-> NtfsSetFileInfo(RO_ACCESS(This)), files |-> files,
               disk |-> disk, label |-> label,
               out |-> [NoOut EXCEPT !.len = Len0],
               calls |-> <<"NtfsSetFileInfo">>]
    ELSE IF Type = "FileSystemInfo"
    THEN FileSetInfoRename(File, Len0, SIZE_OF_EFI_FILE_SYSTEM_INFO, Name)
    ELSE IF Type = "VolumeLabel"
    THEN FileSetInfoRename(File, Len0, 0, Name)
    ELSE ReturnIO(EFI_UNSUPPORTED, Len0)

FileSetInfo(This, Type, Len0, Name, ValidAttr) ==
    /\ handles[This] > 0
    /\ \E r \in {FileSetInfoRes(This, Type, Len0, Name, ValidAttr)} :
           DoneIO("SetInfo", This, r)

\* -------------------------------------------------------------- FileFlush
\* A variant that looks at the access mode before the engine node.
FileFlushResAccessFirst(This) ==
    LET File == BASE_FILE(This)
    IN
    IF RO_ACCESS(This) THEN ReturnIO(EFI_ACCESS_DENIED, 0)
    ELSE IF ~files[File].NtfsInode THEN ReturnIO(EFI_DEVICE_ERROR, 0)
    ELSE IF NtfsIsVolumeReadOnly THEN ReturnIO(EFI_SUCCESS, 0)
    ELSE [status |-> EFI_SUCCESS, files |-> files, disk |-> disk,
          label |-> label, out |-> NoOut, calls |-> <<"NtfsFlushFile">>]

FileFlushRes(This) ==
    LET File == BASE_FILE(This)
    IN
    IF ~files[File].NtfsInode THEN ReturnIO(EFI_DEVICE_ERROR, 0)
    ELSE IF RO_ACCESS(This) THEN ReturnIO(EFI_ACCESS_DENIED, 0)
    ELSE IF NtfsIsVolumeReadOnly THEN ReturnIO(EFI_SUCCESS, 0)
    ELSE [status |-> EFI_SUCCESS, files |-> files, disk |-> disk,
          label |-> label, out |-> NoOut, calls |-> <<"NtfsFlushFile">>]

FileFlush(This) ==
    /\ handles[This] > 0
    /\ \E r \in {FileFlushRes(This)} : DoneIO("Flush", This, r)

\* -------------------------------------------------------- FileSetPosition
\* 0xFFFFFFFFFFFFFFFF, written as the signed value of the same 64 bits.
AllOnes == -1

\* Position > FileSize on UINT64 values, of which AllOnes is the largest.
Above(Position, FileSize) ==
    IF Position = AllOnes THEN FileSize # AllOnes
    ELSE FileSize # AllOnes /\ Position > FileSize

NtfsGetFileSize(File) == disk[files[File].Path].size

\* "The only position that may be set is zero" (lines 451-452).
DirSeekRefused(Position) == Position # 0

\* A variant that refuses a seek to the end of the file as well.
SeekRefusedAtEnd(Position, FileSize) ==
    Position = FileSize \/ Above(Position, FileSize)

\* Cannot seek beyond the end of the file (line 461).
SeekRefused(Position, FileSize) == Above(Position, FileSize)

FileSetPositionRes(This, Position) ==
    LET File == BASE_FILE(This)
    IN
    IF ~files[File].NtfsInode THEN ReturnIO(EFI_DEVICE_ERROR, 0)
    ELSE IF files[File].IsDir
    THEN IF DirSeekRefused(Position) THEN ReturnIO(EFI_UNSUPPORTED, 0)
         ELSE [ReturnIO(EFI_SUCCESS, 0) EXCEPT
                  !.files = [files EXCEPT ![File].DirPos = 0]]
    ELSE LET FileSize == NtfsGetFileSize(File)
             Pos == IF Position = AllOnes THEN FileSize ELSE Position
         IN  IF SeekRefused(Pos, FileSize) THEN ReturnIO(EFI_UNSUPPORTED, 0)
             ELSE [ReturnIO(EFI_SUCCESS, 0) EXCEPT
                      !.files = [files EXCEPT ![File].Offset = Pos]]

FileSetPosition(This, Position) ==
    /\ handles[This] > 0
    /\ \E r \in {FileSetPositionRes(This, Position)} :
           DoneIO("SetPosition", This, r)

\* -------------------------------------------------------- FileGetPosition
FileGetPositionRes(This) ==
    LET File == BASE_FILE(This)
    IN
    IF ~files[File].NtfsInode THEN ReturnIO(EFI_DEVICE_ERROR, 0)
    ELSE IF files[File].IsDir THEN ReturnIO(EFI_UNSUPPORTED, 0)
    ELSE [ReturnIO(EFI_SUCCESS, 0) EXCEPT !.out.pos = files[File].Offset]

FileGetPosition(This) ==
    /\ handles[This] > 0
    /\ \E r \in {FileGetPositionRes(This)} : DoneIO("GetPosition", This, r)

\* --------------------------------------------------------------- FileRead
FILE_ROOT == 5
FILE_FIRST_USER == 16

\* The entries the engine visits in a directory, in its order: system files
\* and the directory's own "." and ".." among them.
Entry(name, ino, isDir) == [name |-> name, ino |-> ino, isDir |-> isDir]
NtfsDirEntries(d, p) ==
    IF p = RootPath
    THEN <<Entry(<<"$", "M">>, 0, FALSE), Entry(<<".">>, FILE_ROOT, TRUE),
           Entry(<<"$", "E">>, 11, TRUE)>>
         \o (IF <<PATH_CHAR, "a">> \in DOMAIN d
             THEN <<Entry(<<"a">>, FILE_FIRST_USER, FALSE)>> ELSE <<>>)
         \o (IF <<PATH_CHAR, "d">> \in DOMAIN d
             THEN <<Entry(<<"d">>, FILE_FIRST_USER + 1, TRUE)>> ELSE <<>>)
    ELSE <<Entry(<<".">>, FILE_FIRST_USER + 1, TRUE),
           Entry(<<".", ".">>, FILE_ROOT, TRUE)>>

\* A variant of the filter that skips the root like any system file.
DirHookSkipsBelowUser(ino) == ino < FILE_FIRST_USER

\* "Don't list any system files except root" (lines 302-303).
DirHookSkips(ino) == ino < FILE_FIRST_USER /\ ino # FILE_ROOT

\* DirHook: 0 to go on, -1 with the errno set, 1 with the entry's size.
DirHook(InfoSize, e) ==
    IF DirHookSkips(e.ino) THEN [ret |-> 0, size |-> InfoSize, errno |-> EFI_SUCCESS]
    ELSE IF InfoSize < (Len(e.name) + 1) * SizeOfChar16
    THEN [ret |-> -1, size |-> InfoSize, errno |-> EFI_BUFFER_TOO_SMALL]
    ELSE [ret |-> 1,
          size |-> SIZE_OF_EFI_FILE_INFO + (Len(e.name) + 1) * SizeOfChar16,
          errno |-> EFI_SUCCESS]

\* NtfsReadDirectory: visits the entries from the position on until the hook
\* stops it, and reports the end of the directory when none was delivered.
RECURSIVE NtfsReadDirectory(_, _, _)
NtfsReadDirectory(entries, pos, InfoSize) ==
    IF pos >= Len(entries)
    THEN [status |-> EFI_END_OF_FILE, DirPos |-> pos, entry |-> NULL,
          size |-> InfoSize]
    ELSE LET h == DirHook(InfoSize, entries[pos + 1])
         IN  IF h.ret = 0 THEN NtfsReadDirectory(entries, pos + 1, InfoSize)
             ELSE IF h.ret < 0
             THEN [status |-> h.errno, DirPos |-> pos, entry |-> NULL,
                   size |-> h.size]
             ELSE [status |-> EFI_SUCCESS, DirPos |-> pos + 1,
                   entry |-> entries[pos + 1].name, size |-> h.size]

\* A variant that reports the end of the directory as the error it is.
EndOfDirectoryAsError(Status) == [status |-> Status, zero |-> FALSE]

\* The end of the directory is a successful read of length 0 (lines 346-349).
EndOfDirectory(Status) ==
    IF Status = EFI_END_OF_FILE THEN [status |-> EFI_SUCCESS, zero |-> TRUE]
    ELSE [status |-> Status, zero |-> FALSE]

FileReadDir(File, Len0) ==
    LET rd == NtfsReadDirectory(NtfsDirEntries(disk, files[File].Path),
                                files[File].DirPos, Len0)
        f1 == [files EXCEPT ![File].DirPos = rd.DirPos]
        c1 == <<"NtfsReadDirectory">>
    IN  IF rd.status # EFI_SUCCESS
        THEN LET end == EndOfDirectory(rd.status)
             IN  [status |-> end.status, files |-> f1, disk |-> disk,
                  label |-> label,
                  out |-> [NoOut EXCEPT !.len = IF end.zero THEN 0 ELSE Len0],
                  calls |-> c1]
        ELSE [status |-> EFI_SUCCESS, files |-> f1, disk |-> disk,
              label |-> label,
              out |-> [NoOut EXCEPT !.len = rd.size, !.written = rd.size,
                                    !.entry = rd.entry],
              calls |-> c1]

\* NtfsReadFile: reads up to Len bytes at the object's offset and advances
\* it.
NtfsReadFile(File, Len0) ==
    LET left == NtfsGetFileSize(File) - files[File].Offset
        n == IF left < 0 THEN 0 ELSE IF Len0 < left THEN Len0 ELSE left
    IN  [status |-> EFI_SUCCESS,
         files |-> [files EXCEPT ![File].Offset = @ + n],
         disk |-> disk, label |-> label,
         out |-> [NoOut EXCEPT !.len = n, !.written = n],
         calls |-> <<"NtfsReadFile">>]

FileReadRes(This, Len0) ==
    LET File == BASE_FILE(This)
    IN
    IF ~files[File].NtfsInode THEN ReturnIO(EFI_DEVICE_ERROR, Len0)
    ELSE IF files[File].IsDir THEN FileReadDir(File, Len0)
    ELSE NtfsReadFile(File, Len0)

FileRead(This, Len0) ==
    /\ handles[This] > 0
    /\ \E r \in {FileReadRes(This, Len0)} : DoneIO("Read", This, r)

\* ------------------------------------------------------------- node gone
\* The engine drops the node of an open object: the underlying object is
\* gone while handle values of it are still held.
NodeGone(This) ==
    /\ handles[This] > 0
    /\ files[BASE_FILE(This)].NtfsInode
    /\ files' = [files EXCEPT ![BASE_FILE(This)].NtfsInode = FALSE]
    /\ last' = [op |-> "NodeGone", this |-> This, status |-> EFI_SUCCESS,
                ret |-> NoHandle, calls |-> <<>>]
    /\ out' = NoOut
    /\ UNCHANGED <<TotalRefCount, mounted, readOnly, disk, handles, label,
                   token, resolved>>

\* ------------------------------------------------------------ FSUninstall
\* The volume is unmounted if files are still open on it; the protocol is
\* then removed, so no call follows.
FSUninstall ==
    /\ last.op # "FSUninstall"
    /\ mounted' = IF TotalRefCount > 0 THEN NtfsUnmountVolume(mounted)
                  ELSE mounted
    /\ last' = [op |-> "FSUninstall", this |-> NoHandle,
                status |-> EFI_SUCCESS, ret |-> NoHandle,
                calls |-> IF TotalRefCount > 0 THEN <<"NtfsUnmountVolume">>
                          ELSE <<>>]
    /\ UNCHANGED <<files, TotalRefCount, readOnly, disk, handles, label,
                   token, out, resolved>>

\* ------------------------------------------------ token-accepting variants
\* Each passes its arguments to the plain operation and returns its status;
\* the token's event and status are not touched.
FileOpenEx(This, Name, Mode, IsDirAttr, fault) ==
    /\ handles[This] > 0
    /\ TotalRefCount < MaxRef
    /\ (IsReopen(Name)
        \/ OpenPaths[files[BASE_FILE(This)].Path, Name] \in VolumePaths)
    /\ \E r \in {FileOpenRes(This, Name, Mode, IsDirAttr, fault)} :
           Done("OpenEx", This, r, FALSE)

FileReadEx(This, Len0) ==
    /\ handles[This] > 0
    /\ \E r \in {FileReadRes(This, Len0)} : DoneIO("ReadEx", This, r)

FileWriteEx(This, Len0) ==
    /\ handles[This] > 0
    /\ files[BASE_FILE(This)].Offset + Len0 <= MaxSize
    /\ \E r \in {FileWriteRes(This, Len0)} : Done("WriteEx", This, r, FALSE)

FileFlushEx(This) ==
    /\ handles[This] > 0
    /\ \E r \in {FileFlushRes(This)} : DoneIO("FlushEx", This, r)

\* ------------------------------------------------------------------ Init
\* The volume has no label (NtfsVolumeLabel == NULL, which reads as the
\* empty string) or a label of one character.
NoLabel == <<>>
Labels == {NoLabel, <<"L">>}

InitDisk ==
    (RootPath :> [isDir |-> TRUE, size |-> 0]) @@
    (<<PATH_CHAR, "a">> :> [isDir |-> FALSE, size |-> 0]) @@
    (<<PATH_CHAR, "d">> :> [isDir |-> TRUE, size |-> 0])

InitWith(L) ==
    /\ files = [o \in Obj |-> ZeroFile]
    /\ TotalRefCount = 0
    /\ mounted = FALSE
    /\ readOnly \in BOOLEAN
    /\ disk = InitDisk
    /\ handles = [v \in HandleValues |-> 0]
    /\ last = [op |-> "none", this |-> NoHandle, status |-> EFI_SUCCESS,
               ret |-> NoHandle, calls |-> <<>>]
    /\ label \in L
    /\ token = FreshToken
    /\ out = NoOut
    /\ resolved = NoResolved

Init == InitWith({NoLabel})

\* The modes and lengths the callers pass.
Modes == ValidModes \cup {{EFI_FILE_MODE_WRITE}}
Lens == {1}

\* The engine faults that can matter to an Open, the attributes to a create.
FaultsFor(Name, Mode) ==
    IF \/ IsReopen(Name)
       \/ Mode \notin ValidModes
       \/ (readOnly /\ Mode # {EFI_FILE_MODE_READ})
    THEN {"none"} ELSE OpenFaults
AttrsFor(Name, Mode) ==
    IF /\ ~IsReopen(Name)
       /\ EFI_FILE_MODE_CREATE \in Mode
       /\ ~readOnly
    THEN BOOLEAN ELSE {FALSE}

Next ==
    \/ \E fault \in OpenVolumeFaults : FileOpenVolume(fault)
    \/ \E This \in Outstanding, Name \in Names, Mode \in Modes :
         \E IsDirAttr \in AttrsFor(Name, Mode), fault \in FaultsFor(Name, Mode) :
            FileOpen(This, Name, Mode, IsDirAttr, fault)
    \/ \E This \in Outstanding : FileClose(This)
    \/ \E This \in Outstanding : FileDelete(This)
    \/ \E This \in Outstanding, Len0 \in Lens : FileWrite(This, Len0)

Spec == Init /\ [][Next]_vars

\* The data operations, on handles opened without engine faults.
IONames == {<<>>, <<"a">>, <<"d">>}
IOModes == {{EFI_FILE_MODE_READ}, {EFI_FILE_MODE_READ, EFI_FILE_MODE_WRITE}}

\* A buffer that holds any entry of the volume, and one that holds none.
BigLen == SIZE_OF_EFI_FILE_INFO + 3 * SizeOfChar16
ReadLens == {1, BigLen}

Positions == 0..(MaxSize + 1) \cup {AllOnes}

\* Buffer lengths around the size each query needs.
GetInfoLens(File, Type) ==
    IF Type = "FileInfo"
    THEN LET n == SIZE_OF_EFI_FILE_INFO + SafeStrSize(BaseName(files[File].Path))
         IN  {n - 1, n, n + 1}
    ELSE IF Type = "FileSystemInfo"
    THEN LET n == SIZE_OF_EFI_FILE_SYSTEM_INFO + SafeStrSize(label)
         IN  {n - 1, n, n + 1}
    ELSE IF Type = "VolumeLabel"
    THEN LET n == SafeStrSize(label)
         IN  {1, n - 1, n, n + 1}
    ELSE {0}

\* Buffer lengths that just hold, and just fail to hold, the name passed.
SetInfoLens(Type, Name) ==
    LET base == IF Type = "FileInfo" THEN SIZE_OF_EFI_FILE_INFO
                ELSE IF Type = "FileSystemInfo"
                THEN SIZE_OF_EFI_FILE_SYSTEM_INFO
                ELSE 0
    IN  {base + SafeStrSize(Name) - 1, base + SafeStrSize(Name)}

\* Opening and closing handles, shared by the specifications below.
NextHandles ==
    \/ FileOpenVolume("none")
    \/ \E This \in Outstanding, Name \in IONames, Mode \in IOModes :
         FileOpen(This, Name, Mode, FALSE, "none")
    \/ \E This \in Outstanding : FileClose(This)

\* Reading, writing and positioning.
NextIO ==
    \/ NextHandles
    \/ \E This \in Outstanding, Len0 \in ReadLens : FileRead(This, Len0)
    \/ \E This \in Outstanding, Len0 \in Lens : FileWrite(This, Len0)
    \/ \E This \in Outstanding, Position \in Positions :
         FileSetPosition(This, Position)
    \/ \E This \in Outstanding : FileGetPosition(This)

SpecIO == Init /\ [][NextIO]_vars

\* Queries and updates of file, file-system and label information.
NextInfo ==
    \/ NextHandles
    \/ \E This \in Outstanding, Len0 \in Lens : FileWrite(This, Len0)
    \/ \E This \in Outstanding, Type \in InfoTypes :
         \E Len0 \in GetInfoLens(BASE_FILE(This), Type) :
            FileGetInfo(This, Type, Len0)
    \/ \E This \in Outstanding, Type \in InfoTypes, Name \in Labels,
          ValidAttr \in BOOLEAN :
         \E Len0 \in SetInfoLens(Type, Name) :
            FileSetInfo(This, Type, Len0, Name, ValidAttr)
    \/ \E This \in Outstanding : FileFlush(This)

SpecInfo == InitWith(Labels) /\ [][NextInfo]_vars

\* The token-accepting variants next to the plain operations.
NextEx ==
    \/ NextHandles
    \/ \E This \in Outstanding, Name \in IONames, Mode \in IOModes :
         FileOpenEx(This, Name, Mode, FALSE, "none")
    \/ \E This \in Outstanding, Len0 \in ReadLens : FileReadEx(This, Len0)
    \/ \E This \in Outstanding, Len0 \in Lens : FileWriteEx(This, Len0)
    \/ \E This \in Outstanding : FileFlushEx(This)

SpecEx == Init /\ [][NextEx]_vars

\* The calls without engine faults: every allocation and mount succeeds.
NextNoFault ==
    \/ FileOpenVolume("none")
    \/ \E This \in Outstanding, Name \in Names, Mode \in Modes :
         \E IsDirAttr \in AttrsFor(Name, Mode) :
            FileOpen(This, Name, Mode, IsDirAttr, "none")
    \/ \E This \in Outstanding : FileClose(This)
    \/ \E This \in Outstanding : FileDelete(This)
    \/ \E This \in Outstanding, Len0 \in Lens : FileWrite(This, Len0)

SpecNoFault == Init /\ [][NextNoFault]_vars

\* Directory and file reads with buffers around the sizes an entry needs:
\* below the shortest name, a name without the fixed part, one byte short
\* of a one-character entry, exactly that entry, and any entry.
DirLens == {1, 2 * SizeOfChar16, SIZE_OF_EFI_FILE_INFO + 2 * SizeOfChar16 - 1,
            SIZE_OF_EFI_FILE_INFO + 2 * SizeOfChar16, BigLen}

NextDir ==
    \/ NextHandles
    \/ \E This \in Outstanding, Len0 \in DirLens : FileRead(This, Len0)
    \/ \E This \in Outstanding : FileSetPosition(This, 0)

SpecDir == Init /\ [][NextDir]_vars

\* The data operations on objects whose node the engine may have dropped.
\* A path whose object has lost its node is not opened again.
NoneGone == \A o \in VolumePaths : files[o].alloc => files[o].NtfsInode

GoneNames == {<<>>, <<"a">>}

NextGone ==
    \/ NoneGone /\ FileOpenVolume("none")
    \/ \E This \in Outstanding, Name \in GoneNames, Mode \in IOModes :
         NoneGone /\ FileOpen(This, Name, Mode, FALSE, "none")
    \/ \E This \in Outstanding : FileClose(This)
    \/ \E This \in Outstanding : NodeGone(This)
    \/ \E This \in Outstanding : FileRead(This, BigLen)
    \/ \E This \in Outstanding, Len0 \in Lens : FileWrite(This, Len0)
    \/ \E This \in Outstanding, Position \in {0, AllOnes} :
         FileSetPosition(This, Position)
    \/ \E This \in Outstanding : FileGetPosition(This)
    \/ \E This \in Outstanding, Type \in InfoTypes :
         \E Len0 \in {n \in GetInfoLens(BASE_FILE(This), Type) :
                         \A k \in GetInfoLens(BASE_FILE(This), Type) : k <= n} :
            FileGetInfo(This, Type, Len0)
    \/ \E This \in Outstanding, Type \in InfoTypes :
         \E Len0 \in SetInfoLens(Type, NoLabel) :
            FileSetInfo(This, Type, Len0, NoLabel, TRUE)
    \/ \E This \in Outstanding : FileFlush(This)

SpecGone == Init /\ [][NextGone]_vars

\* Path building over every short name and every path an object can have.
PathChars == {PATH_CHAR, DOS_PATH_CHAR, ".", "a"}
PathNames == UNION {[1..k -> PathChars] : k \in 0..MaxName}
PathParents == VolumePaths \cup {<<PATH_CHAR, "d", PATH_CHAR, "a">>}

NextPath == \E ParentPath \in PathParents, Name \in PathNames :
               ResolvePath(ParentPath, Name)

SpecPath == Init /\ [][NextPath]_vars

\* The calls up to the removal of the driver, which ends them.
Installed == last.op # "FSUninstall"

NextUninstall ==
    \/ Installed /\ Next
    \/ FSUninstall

SpecUninstall == Init /\ [][NextUninstall]_vars

\* ----------------------------------------------------------------- claims
RECURSIVE SumRefCount(_, _)
SumRefCount(f, S) ==
    IF S = {} THEN 0
    ELSE LET o == CHOOSE x \in S : TRUE
         IN  f[o].RefCount + SumRefCount(f, S \ {o})

\* The engine call c was made by the last call.
Called(c) == \E i \in 1..Len(last.calls) : last.calls[i] = c

OtherValue(v) == <<v[1], IF v[2] = RW THEN RO ELSE RW>>

\* C1: between operations the volume is mounted if and only if its
\* TotalRefCount is greater than 0.
C1_MountedIffRefs == mounted <=> TotalRefCount > 0

\* C2: TotalRefCount is the sum of the RefCounts of the objects that exist,
\* and no count is negative.
C2_TotalIsSum ==
    /\ TotalRefCount = SumRefCount(files, {o \in Obj : files[o].alloc})
    /\ TotalRefCount >= 0
    /\ \A o \in Obj : files[o].RefCount >= 0

C2_Witness ==
    /\ last.op = "Open" /\ last.status = EFI_SUCCESS
    /\ TotalRefCount = 2
    /\ \E o1, o2 \in VolumePaths :
          /\ o1 # o2
          /\ files[o1].RefCount = 1
          /\ files[o2].RefCount = 1

\* C3: an object exists only while its RefCount is greater than 0: once a
\* Close or Delete has dropped it to 0 the object is gone when the call
\* returns.
C3_AllocatedHasRefs ==
    \A o \in Obj : files[o].alloc => files[o].RefCount > 0

\* C4: when every handle value handed out has been released by a Close or a
\* releasing Delete, TotalRefCount is 0, the volume is unmounted, and the
\* call that released the last one invoked the engine unmount.
C4_AllReleasedUnmounts ==
    (/\ last.op \in {"Close", "Delete"}
     /\ last.status # EFI_ACCESS_DENIED
     /\ Outstanding = {})
    => (/\ TotalRefCount = 0
        /\ ~mounted
        /\ Called("NtfsUnmountVolume"))

\* C5: on a writable volume, a path open through one value and opened again
\* with the other access mode resolves to the same object, now with RefCount
\* 2 and both of its values outstanding, each request receiving the value of
\* its mode; Write through the read-only value is denied while the read-write
\* value is open; closing either value takes exactly one reference.
C5_DualMode ==
    [][~readOnly =>
        /\ (last'.op = "Open" /\ last'.status = EFI_SUCCESS) =>
              \A Name \in Names \ {<<>>, <<".">>},
                 Mode \in {{EFI_FILE_MODE_READ},
                           {EFI_FILE_MODE_READ, EFI_FILE_MODE_WRITE}} :
                 LET p == OpenPaths[files[last'.this[1]].Path, Name]
                     v == <<p, IF Mode = {EFI_FILE_MODE_READ} THEN RO ELSE RW>>
                 IN  (/\ p \in VolumePaths
                      /\ files[p].alloc
                      /\ files[p].RefCount = 1
                      /\ handles[OtherValue(v)] = 1
                      /\ \E fault \in OpenFaults :
                            FileOpen(last'.this, Name, Mode, FALSE, fault))
                     => /\ last'.ret = v
                        /\ files'[p].RefCount = 2
                        /\ handles'[v] = 1
                        /\ handles'[OtherValue(v)] = 1
                        /\ \A o \in Obj : files'[o].alloc = files[o].alloc
        /\ (/\ last'.op = "Write"
            /\ last'.this[2] = RO
            /\ handles[OtherValue(last'.this)] > 0)
           => /\ last'.status = EFI_ACCESS_DENIED
              /\ files' = files
              /\ disk' = disk
        /\ (/\ last'.op = "Close"
            /\ files[last'.this[1]].RefCount = 2
            /\ handles[last'.this] = 1
            /\ handles[OtherValue(last'.this)] = 1)
           => /\ files'[last'.this[1]].alloc
              /\ files'[last'.this[1]].RefCount = 1
              /\ handles'[OtherValue(last'.this)] = 1
    ]_vars

C5_Witness ==
    /\ ~readOnly
    /\ last.op = "Write"
    /\ last.this[2] = RO
    /\ last.status = EFI_ACCESS_DENIED
    /\ handles[last.this] = 1
    /\ handles[OtherValue(last.this)] = 1
    /\ files[last.this[1]].RefCount = 2

\* C6 as stated: Open with name "" or "." and mode Read or Read+Write on any
\* outstanding handle succeeds, takes one reference on the handle's object
\* and on the volume, allocates nothing, and returns the value of that object
\* for the requested mode.
ReopenPost(This, Mode) ==
    LET o == BASE_FILE(This)
    IN  /\ last'.status = EFI_SUCCESS
        /\ files'[o].RefCount = files[o].RefCount + 1
        /\ TotalRefCount' = TotalRefCount + 1
        /\ \A x \in Obj : /\ files'[x].alloc = files[x].alloc
                          /\ files'[x].Path = files[x].Path
        /\ ~Called("NtfsAllocateFile")'
        /\ last'.ret = <<o, IF Mode = {EFI_FILE_MODE_READ} THEN RO ELSE RW>>

C6_ReopenAnyHandle ==
    [][last'.op = "Open" =>
        \A Name \in {<<>>, <<".">>},
           Mode \in {{EFI_FILE_MODE_READ},
                     {EFI_FILE_MODE_READ, EFI_FILE_MODE_WRITE}} :
            FileOpen(last'.this, Name, Mode, FALSE, "none")
            => ReopenPost(last'.this, Mode)
    ]_vars

\* The call left the objects, the counts, the mount state and the callers'
\* handle values as they were.
NothingChanged ==
    /\ files' = files
    /\ TotalRefCount' = TotalRefCount
    /\ mounted' = mounted
    /\ disk' = disk
    /\ handles' = handles

\* C6 amended: the same on any outstanding directory handle, root or not,
\* with a mode the volume permits (Read only on a read-only volume); with
\* Read+Write on a read-only volume the call returns WriteProtected, and
\* otherwise on a regular-file handle NotFound, changing nothing.
C6_ReopenDirectory ==
    [][last'.op = "Open" =>
        \A Name \in {<<>>, <<".">>},
           Mode \in {{EFI_FILE_MODE_READ},
                     {EFI_FILE_MODE_READ, EFI_FILE_MODE_WRITE}} :
            FileOpen(last'.this, Name, Mode, FALSE, "none")
            => IF readOnly /\ Mode # {EFI_FILE_MODE_READ}
               THEN last'.status = EFI_WRITE_PROTECTED /\ NothingChanged
               ELSE IF ~files[last'.this[1]].IsDir
               THEN last'.status = EFI_NOT_FOUND /\ NothingChanged
               ELSE ReopenPost(last'.this, Mode)
    ]_vars

C6_Witness ==
    /\ last.op = "Open" /\ last.status = EFI_SUCCESS
    /\ last.calls = <<>>
    /\ last.ret = <<last.this[1], RO>>
    /\ last.this[2] = RW
    /\ ~files[last.this[1]].IsRoot
    /\ files[last.this[1]].IsDir
    /\ files[last.this[1]].RefCount = 2

C8_DeleteStatus ==
    [][last'.op = "Delete" =>
        /\ last'.status \in {EFI_SUCCESS, EFI_WARN_DELETE_FAILURE}
        /\ handles'[last'.this] = handles[last'.this] - 1
        /\ TotalRefCount' = TotalRefCount - 1
    ]_vars

\* C9: Close returns success, takes exactly one reference from the object
\* and from the volume, closes the node and destroys the object exactly when
\* its RefCount reaches 0, unmounts exactly when TotalRefCount reaches 0, and
\* leaves every other object as it was.
C9_Close ==
    [][last'.op = "Close" =>
        LET o == last'.this[1]
        IN  /\ last'.status = EFI_SUCCESS
            /\ TotalRefCount' = TotalRefCount - 1
            /\ files'[o].alloc => files'[o].RefCount = files[o].RefCount - 1
            /\ ~files'[o].alloc <=> files[o].RefCount = 1
            /\ Called("NtfsCloseFile")' <=> files[o].RefCount = 1
            /\ Called("NtfsUnmountVolume")' <=> TotalRefCount = 1
            /\ mounted' = IF TotalRefCount = 1 THEN FALSE ELSE mounted
            /\ \A x \in Obj \ {o} : files'[x] = files[x]
    ]_vars

C9_Witness ==
    /\ last.op = "Close"
    /\ ~files[last.this[1]].alloc
    /\ Called("NtfsCloseFile")
    /\ ~Called("NtfsUnmountVolume")
    /\ TotalRefCount = 1
    /\ mounted

\* C10: a failing OpenVolume changes no RefCount and not the TotalRefCount,
\* leaves no root object it allocated, and leaves the volume unmounted, also
\* when other handles on the volume are open.
C10_OpenVolumeFails ==
    [][(last'.op = "OpenVolume" /\ EFI_ERROR(last'.status)) =>
        /\ \A o \in Obj : /\ files'[o].RefCount = files[o].RefCount
                          /\ files'[o].alloc = files[o].alloc
        /\ TotalRefCount' = TotalRefCount
        /\ handles' = handles
        /\ ~mounted'
    ]_vars

C10_Witness ==
    /\ last.op = "OpenVolume"
    /\ EFI_ERROR(last.status)
    /\ Called("NtfsAllocateFile")
    /\ TotalRefCount > 0
    /\ ~mounted
    /\ ~files[New].alloc

\* C11 as stated: a successful OpenVolume mounts the volume, adds exactly 1
\* to TotalRefCount and returns a root handle whose object has RefCount
\* exactly 1, also when an earlier root handle is still open.
C11_OpenVolumeRefOne ==
    [][(last'.op = "OpenVolume" /\ ~EFI_ERROR(last'.status)) =>
        /\ mounted'
        /\ TotalRefCount' = TotalRefCount + 1
        /\ files'[last'.ret[1]].IsRoot
        /\ files'[last'.ret[1]].RefCount = 1
    ]_vars

\* C11 amended: a successful OpenVolume mounts the volume, adds exactly 1 to
\* TotalRefCount and to the root object's RefCount (1 for a fresh root, one
\* more than before when the engine hands back the open root), and returns
\* the read-write value of the root object.
C11_OpenVolumeRefPlusOne ==
    [][(last'.op = "OpenVolume" /\ ~EFI_ERROR(last'.status)) =>
        /\ mounted'
        /\ TotalRefCount' = TotalRefCount + 1
        /\ last'.ret = <<RootPath, RW>>
        /\ files'[RootPath].alloc /\ files'[RootPath].IsRoot
        /\ files'[RootPath].RefCount = files[RootPath].RefCount + 1
        /\ files[RootPath].alloc <=> files[RootPath].RefCount > 0
        /\ handles'[last'.ret] = handles[last'.ret] + 1
    ]_vars

C11_Witness ==
    /\ last.op = "OpenVolume" /\ last.status = EFI_SUCCESS
    /\ files[RootPath].RefCount = 2
    /\ handles[<<RootPath, RW>>] = 2
    /\ mounted

CreateMode == {EFI_FILE_MODE_CREATE, EFI_FILE_MODE_READ, EFI_FILE_MODE_WRITE}

\* The step is a call Open(This, Name, Mode, ...) for some attributes and
\* some behaviour of the engine.
OpenedWith(This, Name, Mode) ==
    \E IsDirAttr \in AttrsFor(Name, Mode), fault \in FaultsFor(Name, Mode) :
        FileOpen(This, Name, Mode, IsDirAttr, fault)
ReservedNames == {<<>>, <<".">>, <<".", ".">>}

\* C12 as stated: on a writable volume, Open with mode Create+Read+Write and
\* the name "", "." or ".." on any directory handle, the root included,
\* returns AccessDenied and changes nothing.
C12_CreateReservedDenied ==
    [][(last'.op = "Open" /\ ~readOnly /\ files[last'.this[1]].IsDir) =>
        \A Name \in ReservedNames :
            OpenedWith(last'.this, Name, CreateMode)
            => last'.status = EFI_ACCESS_DENIED /\ NothingChanged
    ]_vars

\* C12 amended: the same, except that ".." on the root handle returns
\* NotFound; nothing changes in either case and no engine call is made.
C12_CreateReservedRejected ==
    [][(last'.op = "Open" /\ ~readOnly /\ files[last'.this[1]].IsDir) =>
        \A Name \in ReservedNames :
            OpenedWith(last'.this, Name, CreateMode)
            => /\ last'.status =
                    IF Name = <<".", ".">> /\ files[last'.this[1]].IsRoot
                    THEN EFI_NOT_FOUND ELSE EFI_ACCESS_DENIED
               /\ NothingChanged
               /\ last'.calls = <<>>
    ]_vars

C12_Witness ==
    /\ last.op = "Open" /\ last.status = EFI_ACCESS_DENIED
    /\ last.calls = <<>>
    /\ ~readOnly
    /\ files[last.this[1]].IsDir /\ ~files[last.this[1]].IsRoot

ReadMode == {EFI_FILE_MODE_READ}
ReadWriteMode == {EFI_FILE_MODE_READ, EFI_FILE_MODE_WRITE}
\* The mode is one of Read, Read+Write, Create+Read+Write.
ModeIsValid(Mode) == Mode \in {ReadMode, ReadWriteMode, CreateMode}

\* C13 as stated: Open on a directory handle with an invalid mode returns
\* InvalidParameter and changes nothing on writable and read-only volumes
\* alike; with a valid mode that includes write or create on a read-only
\* volume it returns WriteProtected and changes nothing.
C13_ModeErrors ==
    [][(last'.op = "Open" /\ files[last'.this[1]].IsDir) =>
        \A Name \in Names, Mode \in Modes \ {ReadMode} :
            /\ (~ModeIsValid(Mode) /\ OpenedWith(last'.this, Name, Mode))
               => last'.status = EFI_INVALID_PARAMETER /\ NothingChanged
            /\ (readOnly /\ ModeIsValid(Mode)
                  /\ OpenedWith(last'.this, Name, Mode))
               => last'.status = EFI_WRITE_PROTECTED /\ NothingChanged
    ]_vars

\* C13 amended: on a read-only volume every mode other than Read, valid or
\* not, returns WriteProtected; on a writable volume an invalid mode returns
\* InvalidParameter, except with ".." on the root handle (NotFound); nothing
\* changes in any of these cases.
C13_ModeErrorsByVolume ==
    [][(last'.op = "Open" /\ files[last'.this[1]].IsDir) =>
        \A Name \in Names, Mode \in Modes \ {ReadMode} :
            /\ (readOnly /\ OpenedWith(last'.this, Name, Mode))
               => last'.status = EFI_WRITE_PROTECTED /\ NothingChanged
            /\ (~readOnly /\ ~ModeIsValid(Mode)
                  /\ OpenedWith(last'.this, Name, Mode))
               => /\ last'.status =
                       IF Name = <<".", ".">> /\ files[last'.this[1]].IsRoot
                       THEN EFI_NOT_FOUND ELSE EFI_INVALID_PARAMETER
                  /\ NothingChanged
    ]_vars

C13_Witness ==
    /\ last.op = "Open" /\ last.status = EFI_INVALID_PARAMETER
    /\ ~readOnly
    /\ files[last.this[1]].IsDir /\ ~files[last.this[1]].IsRoot

C13_WitnessReadOnly ==
    /\ last.op = "Open" /\ last.status = EFI_WRITE_PROTECTED
    /\ readOnly
    /\ files[last.this[1]].IsDir

C15_ReadOnlyValueDenied ==
    [][(/\ last'.op \in {"Write", "Flush", "SetInfo"}
        /\ RO_ACCESS(last'.this)
        /\ ~readOnly
        /\ files[BASE_FILE(last'.this)].NtfsInode)
       => (/\ last'.status = EFI_ACCESS_DENIED
           /\ last'.calls = <<>>
           /\ disk' = disk
           /\ label' = label)]_vars

\* C15: the volume has been renamed through a read-only value of the root.
C15_RenamedThroughReadOnly ==
    /\ last.op = "SetInfo"
    /\ RO_ACCESS(last.this)
    /\ ~readOnly
    /\ last.status = EFI_SUCCESS
    /\ last.calls = <<"NtfsRenameVolume">>
    /\ label = <<"L">>


\* What SetPosition(This, p) has to leave behind, by the kind of the object.
SetPositionPost(This, p) ==
    LET o == BASE_FILE(This)
        size == disk[files[o].Path].size
    IN  IF files[o].IsDir
        THEN IF p = 0
             THEN /\ last'.status = EFI_SUCCESS
                  /\ files' = [files EXCEPT ![o].DirPos = 0]
             ELSE /\ last'.status = EFI_UNSUPPORTED
                  /\ files' = files
        ELSE IF p = AllOnes
        THEN /\ last'.status = EFI_SUCCESS
             /\ files' = [files EXCEPT ![o].Offset = size]
        ELSE IF p <= size
        THEN /\ last'.status = EFI_SUCCESS
             /\ files' = [files EXCEPT ![o].Offset = p]
        ELSE /\ last'.status = EFI_UNSUPPORTED
             /\ files' = files

\* C16: SetPosition(p) on a file sets the offset to p when p is at most the
\* file size, to the file size when p is the all-ones value, and returns
\* EFI_UNSUPPORTED leaving the offset alone when p is beyond the size; on a
\* directory only p = 0 succeeds and resets the enumeration position, any
\* other p returns EFI_UNSUPPORTED and changes nothing; GetPosition returns
\* the object's offset on a file and EFI_UNSUPPORTED on a directory.
C16_Positions ==
    [][/\ (last'.op = "SetPosition" /\ files[BASE_FILE(last'.this)].NtfsInode)
          => \A p \in Positions :
                FileSetPosition(last'.this, p) => SetPositionPost(last'.this, p)
       /\ (last'.op = "GetPosition" /\ files[BASE_FILE(last'.this)].NtfsInode)
          => /\ files' = files
             /\ IF files[BASE_FILE(last'.this)].IsDir
                THEN last'.status = EFI_UNSUPPORTED
                ELSE /\ last'.status = EFI_SUCCESS
                     /\ out'.pos = files[BASE_FILE(last'.this)].Offset]_vars

\* C16: a seek has put the offset of a non-empty file at its end.
C16_Witness ==
    /\ last.op = "SetPosition"
    /\ last.status = EFI_SUCCESS
    /\ ~files[BASE_FILE(last.this)].IsDir
    /\ files[BASE_FILE(last.this)].NtfsInode
    /\ files[BASE_FILE(last.this)].Offset = disk[files[BASE_FILE(last.this)].Path].size
    /\ files[BASE_FILE(last.this)].Offset > 0


\* The size a query of the given type needs for the object.
RequiredSize(o, Type) ==
    IF Type = "FileInfo"
    THEN SIZE_OF_EFI_FILE_INFO + (Len(BaseName(files[o].Path)) + 1) * SizeOfChar16
    ELSE IF Type = "FileSystemInfo"
    THEN SIZE_OF_EFI_FILE_SYSTEM_INFO + (Len(label) + 1) * SizeOfChar16
    ELSE (Len(label) + 1) * SizeOfChar16

\* C17: for file, file-system and (on the root) volume-label information and
\* every buffer length: GetInfo with a buffer below the required size
\* returns EFI_BUFFER_TOO_SMALL, stores the required size in the length and
\* writes nothing to the buffer; with a buffer of the required size or more
\* it succeeds and reports the size written.
C17_GetInfoSizes ==
    [][(last'.op = "GetInfo" /\ files[BASE_FILE(last'.this)].NtfsInode)
       => \A Type \in {"FileInfo", "FileSystemInfo", "VolumeLabel"} :
             \A Len0 \in GetInfoLens(BASE_FILE(last'.this), Type) :
                (/\ Type = "VolumeLabel" => files[BASE_FILE(last'.this)].IsRoot
                 /\ FileGetInfo(last'.this, Type, Len0))
                => LET req == RequiredSize(BASE_FILE(last'.this), Type)
                   IN  IF Len0 < req
                       THEN /\ last'.status = EFI_BUFFER_TOO_SMALL
                            /\ out'.len = req
                            /\ out'.written = 0
                       ELSE /\ last'.status = EFI_SUCCESS
                            /\ out'.len = req
                            /\ out'.written = req]_vars


\* The entries a listing has to show: the root's and the users'.
Listed(e) == e.ino = 5 \/ e.ino >= 16
DirEntriesOf(o) == NtfsDirEntries(disk, files[o].Path)
Visible(o) == SelectSeq(DirEntriesOf(o), Listed)

\* How many of them lie before the enumeration position of the object.
Seen(f, o) ==
    LET n == IF f[o].DirPos < Len(DirEntriesOf(o)) THEN f[o].DirPos
             ELSE Len(DirEntriesOf(o))
    IN  Len(SelectSeq(SubSeq(DirEntriesOf(o), 1, n), Listed))

\* C18: each Read of a directory with a buffer large enough returns exactly
\* one entry, the next in engine order of the entries whose inode number is
\* the root's (5) or a user's (16 or more), and moves past it, so that
\* repeated reads return each of them once, in order, and no other entry.
C18_ListsRootAndUsers ==
    [][(/\ last'.op = "Read"
        /\ files[BASE_FILE(last'.this)].NtfsInode
        /\ files[BASE_FILE(last'.this)].IsDir
        /\ FileRead(last'.this, BigLen))
       => LET o == BASE_FILE(last'.this)
              k == Seen(files, o)
          IN  /\ last'.status = EFI_SUCCESS
              /\ IF k < Len(Visible(o))
                 THEN /\ out'.entry = Visible(o)[k + 1].name
                      /\ out'.len = SIZE_OF_EFI_FILE_INFO
                                     + (Len(out'.entry) + 1) * SizeOfChar16
                      /\ Seen(files', o) = k + 1
                 ELSE /\ out'.entry = NULL
                      /\ out'.len = 0
                      /\ Seen(files', o) = k]_vars

\* C18: the third read of the root has returned its last user entry, after
\* the system files around it were passed over.
C18_Witness ==
    /\ last.op = "Read"
    /\ last.status = EFI_SUCCESS
    /\ files[BASE_FILE(last.this)].IsRoot
    /\ out.entry = <<"d">>
    /\ Seen(files, BASE_FILE(last.this)) = 3


\* No entry to list is left at or after the enumeration position.
Exhausted(f, o) == Seen(f, o) = Len(Visible(o))

\* The object is an open directory, before and after the step.
StaysOpenDir(o) ==
    /\ files[o].NtfsInode /\ files[o].IsDir
    /\ files'[o].NtfsInode /\ files'[o].Path = files[o].Path

\* C19: once the entries of a directory are exhausted, every Read of it,
\* whatever the buffer, returns EFI_SUCCESS with length 0 and it stays
\* exhausted until a SetPosition(0) succeeds on it; that call puts the
\* enumeration position back to 0, and the Read after it returns the first
\* entry again.
C19_ExhaustedUntilRewind ==
    [][/\ \A o \in Obj :
            (StaysOpenDir(o) /\ Exhausted(files, o))
            => /\ (last'.op = "Read" /\ BASE_FILE(last'.this) = o)
                  => (last'.status = EFI_SUCCESS /\ out'.len = 0)
               /\ ~(last'.op = "SetPosition" /\ BASE_FILE(last'.this) = o
                    /\ last'.status = EFI_SUCCESS)
                  => Exhausted(files', o)
       /\ \A o \in Obj :
            (StaysOpenDir(o) /\ last'.op = "SetPosition"
             /\ BASE_FILE(last'.this) = o /\ last'.status = EFI_SUCCESS)
            => (files'[o].DirPos = 0 /\ Seen(files', o) = 0)
       /\ \A o \in Obj :
            (StaysOpenDir(o) /\ files[o].DirPos = 0 /\ last'.op = "Read"
             /\ BASE_FILE(last'.this) = o /\ FileRead(last'.this, BigLen))
            => out'.entry = Visible(o)[1].name]_vars

\* C19: a Read of an exhausted directory has returned nothing, with success.
C19_Witness ==
    /\ last.op = "Read"
    /\ last.status = EFI_SUCCESS
    /\ out.len = 0
    /\ files[BASE_FILE(last.this)].IsDir
    /\ files[BASE_FILE(last.this)].DirPos > 0
    /\ Exhausted(files, BASE_FILE(last.this))


ExOps == {"OpenEx", "ReadEx", "WriteEx", "FlushEx"}

\* C20: each token-accepting variant returns the status and makes the state
\* change of its plain counterpart, all within the call, and before it
\* returns signals the token's completion with that status.
C20_ExSignalsToken ==
    [][last'.op \in ExOps
       => /\ last'.op = "FlushEx"
             => (/\ last'.status = FileFlushRes(last'.this).status
                 /\ files' = FileFlushRes(last'.this).files)
          /\ last'.op = "ReadEx"
             => \E Len0 \in ReadLens :
                   /\ last'.status = FileReadRes(last'.this, Len0).status
                   /\ files' = FileReadRes(last'.this, Len0).files
                   /\ out' = FileReadRes(last'.this, Len0).out
          /\ last'.op = "WriteEx"
             => \E Len0 \in Lens :
                   /\ last'.status = FileWriteRes(last'.this, Len0).status
                   /\ disk' = FileWriteRes(last'.this, Len0).disk
          /\ token'.signalled
          /\ token'.status = last'.status]_vars


\* C21: after FSUninstall the volume is unmounted, whatever calls came
\* before it: forcibly if TotalRefCount > 0, and already so if it is 0.
C21_UninstallUnmounts ==
    last.op = "FSUninstall" => ~mounted


\* A name with every alternate delimiter replaced by the canonical one.
AllCanonical(n) ==
    [i \in 1..Len(n) |-> IF n[i] = "\\" THEN "/" ELSE n[i]]

\* The path is "/" or a sequence of "/"-led segments, none of them empty,
\* "." or "..", with no alternate delimiter left.
IsCleanAbsolute(p) ==
    /\ p # <<>>
    /\ p[1] = "/"
    /\ \A i \in 1..Len(p) : p[i] # "\\"
    /\ (p # <<"/">>
        => \A k \in 2..Len(Segments(p, <<>>)) :
              Segments(p, <<>>)[k] \notin {<<>>, <<".">>, <<".", ".">>})

\* C22: a name that begins with a delimiter replaces the parent's path,
\* any other name is appended to it after a delimiter; the alternate
\* delimiters of the name are rewritten to the canonical one; and the
\* cleaned result is non-empty and absolute, without repeated delimiters,
\* "." or ".." segments, for every parent path and name.
C22_PathResolution ==
    resolved # NoResolved
    => LET n == resolved.name
           abs == n # <<>> /\ n[1] \in {"/", "\\"}
       IN  /\ abs => resolved.path = CleanPath(AllCanonical(n))
           /\ ~abs => resolved.path
                         = CleanPath(resolved.parent \o <<"/">>
                                     \o AllCanonical(n))
           /\ IsCleanAbsolute(resolved.path)

\* C22: under /d, a name led by the alternate delimiter and climbing twice
\* has resolved to the root.
C22_Witness ==
    /\ resolved.parent = <<"/", "d">>
    /\ resolved.name = <<"\\", ".", ".">>
    /\ resolved.path = <<"/">>


\* C23: a Read of a directory whose buffer is smaller than the fixed part
\* of an entry plus the terminated name of the next entry to list fails
\* with EFI_BUFFER_TOO_SMALL and writes no entry data; it succeeds only
\* with a buffer that holds both.
C23_DirBufferTooSmall ==
    [][(/\ last'.op = "Read"
        /\ files[BASE_FILE(last'.this)].NtfsInode
        /\ files[BASE_FILE(last'.this)].IsDir
        /\ ~Exhausted(files, BASE_FILE(last'.this)))
       => \A Len0 \in DirLens :
             FileRead(last'.this, Len0)
             => LET o == BASE_FILE(last'.this)
                    e == Visible(o)[Seen(files, o) + 1]
                    need == 80 + (Len(e.name) + 1) * 2
                IN  IF Len0 < need
                    THEN /\ last'.status = EFI_BUFFER_TOO_SMALL
                         /\ out'.written = 0
                         /\ out'.entry = NULL
                    ELSE last'.status = EFI_SUCCESS]_vars


DataOps == {"Read", "Write", "SetPosition", "GetPosition", "GetInfo",
            "SetInfo", "Flush"}

\* The call was made on a handle value whose object has no engine node, and
\* it called nothing and changed nothing.
GoneCallInert ==
    /\ last'.calls = <<>>
    /\ files' = files
    /\ disk' = disk
    /\ label' = label
    /\ TotalRefCount' = TotalRefCount
    /\ mounted' = mounted
    /\ handles' = handles

\* C24: on a handle value whose engine node is gone, each of Read, Write,
\* SetPosition, GetPosition, GetInfo, SetInfo and Flush returns
\* EFI_DEVICE_ERROR, calls nothing of the engine and changes no state,
\* whatever the access mode, the kind of object, the arguments and the
\* volume's read-only state.
C24_GoneIsDeviceError ==
    [][(last'.op \in DataOps /\ ~files[BASE_FILE(last'.this)].NtfsInode)
       => (GoneCallInert /\ last'.status = EFI_DEVICE_ERROR)]_vars

\* C24, with the order of FileSetInfo's tests: as above, except that
\* SetInfo on a read-only volume returns EFI_WRITE_PROTECTED.
C24_GoneIsDeviceErrorOrProtected ==
    [][(last'.op \in DataOps /\ ~files[BASE_FILE(last'.this)].NtfsInode)
       => /\ GoneCallInert
          /\ last'.status = IF last'.op = "SetInfo" /\ readOnly
                            THEN EFI_WRITE_PROTECTED
                            ELSE EFI_DEVICE_ERROR]_vars

\* C24: Flush through a read-only value of an object whose node is gone has
\* returned EFI_DEVICE_ERROR.
C24_Witness ==
    /\ last.op = "Flush"
    /\ last.status = EFI_DEVICE_ERROR
    /\ RO_ACCESS(last.this)
    /\ handles[last.this] > 0
    /\ ~files[BASE_FILE(last.this)].NtfsInode


\* The engine calls that work on the node of an object.
NodeOps == {"NtfsOpenFile", "NtfsCreateFile", "NtfsCloseFile",
            "NtfsDeleteFile", "NtfsWriteFile"}

\* C25: in a Close or Delete that releases the last reference of an object
\* and brings TotalRefCount to 0, the engine's close or delete of the node
\* comes before the unmount; and no call on a handle issues an engine node
\* operation while the volume is unmounted.
C25_NodeOpsWhileMounted ==
    [][/\ last'.op \in {"Close", "Delete"}
          => \A i, j \in 1..Len(last'.calls) :
                (last'.calls[i] = "NtfsUnmountVolume"
                 /\ last'.calls[j] \in NodeOps) => j < i
       /\ (last'.op \in {"Open", "Close", "Delete", "Write"} /\ ~mounted)
          => \A j \in 1..Len(last'.calls) : last'.calls[j] \notin NodeOps]_vars


\* C26: on a read-only volume no read-write handle value is outstanding.
C26_NoReadWriteOnReadOnly ==
    readOnly => \A v \in HandleValues : handles[v] > 0 => RO_ACCESS(v)

\* C26, with the value OpenVolume returns: on a read-only volume every
\* value Open hands out is a read-only value, OpenVolume hands out the
\* read-write value of the root, and no other read-write value is
\* outstanding.
C26_OnlyRootReadWrite ==
    readOnly
    => /\ \A v \in HandleValues :
            (handles[v] > 0 /\ ~RO_ACCESS(v)) => v = <<RootPath, RW>>
       /\ (last.op = "Open" /\ last.ret # NoHandle) => RO_ACCESS(last.ret)
       /\ (last.op = "OpenVolume" /\ last.ret # NoHandle)
          => last.ret = <<RootPath, RW>>

\* C26: on a read-only volume Open has handed out a read-only value while
\* the read-write value of the root from OpenVolume is outstanding.
C26_Witness ==
    /\ readOnly
    /\ last.op = "Open"
    /\ last.ret # NoHandle
    /\ RO_ACCESS(last.ret)
    /\ handles[<<RootPath, RW>>] > 0

====
